---- MODULE Spec2Model ----
(***************************************************************************)
(* A model of x2text_main.py: the credential bootstrap, the per-account    *)
(* pagination loop (TwitterScraper.get_user_tweets), the response          *)
(* normaliser (TwitterScraper._process_tweets) and the orchestrator        *)
(* (TwitterScraper.follow_users and main).                                 *)
(*                                                                         *)
(* Python values are encoded as follows.  An object is a TLA+ record whose *)
(* DOMAIN is the set of attributes it has, so hasattr(o, "f") is           *)
(* "f" \in DOMAIN o.  None is the record [none |-> TRUE]; a string is      *)
(* [str |-> s] and a list is [list |-> <<...>>] wherever the value may     *)
(* also be None, so that any two values can be compared.                   *)
(***************************************************************************)
EXTENDS Integers, Sequences, FiniteSets, TLC

\* ------------------------------------------------------------------ bounds
MaxPageLen == 2        \* raw posts in one page handed to _process_tweets

\* ------------------------------------------------------- value encodings
None == [none |-> TRUE]
Str(s) == [str |-> s]
PyList(s) == [list |-> s]

\* Python truthiness of a value that is None or a list
Truthy(v) == v # None /\ v # PyList(<<>>)

HasAttr(o, f) == f \in DOMAIN o
GetAttr(o, f, default) == IF f \in DOMAIN o THEN o[f] ELSE default

\* datetime.isoformat(): date and time joined by the letter T
IsoFormat(dt) == <<dt.date, "T", dt.time>>

Max(S) == CHOOSE m \in S : \A n \in S : n <= m

\* {e.key: e for e in entries}[key]: on a repeated key the last entry wins
DictGet(entries, keyfield, key) ==
    LET hits == {k \in 1..Len(entries) : entries[k][keyfield] = key}
    IN IF hits = {} THEN None ELSE entries[Max(hits)]

\* the side table called name, or an empty one when the page has none
SideTable(includes, name) ==
    IF name \in DOMAIN includes THEN includes[name] ELSE <<>>

\* ------------------------------------------------------- _process_tweets
AuthorInfo(author) ==
    [id |-> author.id,
     name |-> author.name,
     username |-> author.username,
     description |-> author.description,
     followers_count |-> author.public_metrics.followers_count,
     following_count |-> author.public_metrics.following_count,
     tweet_count |-> author.public_metrics.tweet_count,
     verified |-> GetAttr(author, "verified", FALSE),
     profile_image_url |-> GetAttr(author, "profile_image_url", None)]

MediaItem(m, media_key) ==
    LET item == [type |-> m.type,
                 media_key |-> media_key,
                 url |-> GetAttr(m, "url", None),
                 alt_text |-> GetAttr(m, "alt_text", None)]
    IN IF HasAttr(m, "public_metrics")
       THEN [f \in DOMAIN item \cup {"metrics"} |->
                IF f = "metrics" THEN m.public_metrics ELSE item[f]]
       ELSE item

MediaItems(tweet, media) ==
    IF HasAttr(tweet, "attachments") /\ HasAttr(tweet.attachments, "media_keys")
    THEN LET keys == tweet.attachments.media_keys
             Known(key) == DictGet(media, "media_key", key) # None
             found == SelectSeq(keys, Known)
         IN [k \in 1..Len(found) |->
                MediaItem(DictGet(media, "media_key", found[k]), found[k])]
    ELSE <<>>

RefData(ref, tweets_lookup) ==
    LET ref_tweet == DictGet(tweets_lookup, "id", ref.id)
        base == [type |-> ref.type, id |-> ref.id]
        withText == [type |-> ref.type, id |-> ref.id,
                     text |-> ref_tweet.text,
                     created_at |-> IsoFormat(ref_tweet.created_at)]
    IN IF ref_tweet = None THEN base
       ELSE IF HasAttr(ref_tweet, "public_metrics")
            THEN [type |-> ref.type, id |-> ref.id,
                  text |-> ref_tweet.text,
                  created_at |-> IsoFormat(ref_tweet.created_at),
                  public_metrics |-> ref_tweet.public_metrics]
            ELSE withText

ReferencedTweets(tweet, tweets_lookup) ==
    IF HasAttr(tweet, "referenced_tweets") /\ Truthy(tweet.referenced_tweets)
    THEN LET refs == tweet.referenced_tweets.list
         IN [k \in 1..Len(refs) |-> RefData(refs[k], tweets_lookup)]
    ELSE <<>>

EntityList(tweet, name) ==
    IF HasAttr(tweet, "entities") /\ HasAttr(tweet.entities, name)
       /\ Truthy(tweet.entities[name])
    THEN tweet.entities[name].list
    ELSE <<>>

Entities(tweet) ==
    LET tags == EntityList(tweet, "hashtags")
        ments == EntityList(tweet, "mentions")
        links == EntityList(tweet, "urls")
    IN [hashtags |-> [k \in 1..Len(tags) |-> tags[k].tag],
        mentions |-> [k \in 1..Len(ments) |->
                        [username |-> ments[k].username, id |-> ments[k].id]],
        urls |-> [k \in 1..Len(links) |->
                        [url |-> links[k].url,
                         expanded_url |-> links[k].expanded_url]]]

\* items if items else None, with the list kept as it is (a slip)
OrNone_keep(items) == PyList(items)

\* items if items else None
OrNone(items) == IF items # <<>> THEN PyList(items) ELSE None

TweetObj(tweet, includes) ==
    LET author == DictGet(SideTable(includes, "users"), "id", tweet.author_id)
        media_items == MediaItems(tweet, SideTable(includes, "media"))
        referenced_tweets ==
            ReferencedTweets(tweet, SideTable(includes, "tweets"))
    IN [id |-> tweet.id,
        text |-> tweet.text,
        created_at |-> IsoFormat(tweet.created_at),
        lang |-> GetAttr(tweet, "lang", None),
        source |-> GetAttr(tweet, "source", None),
        public_metrics |-> GetAttr(tweet, "public_metrics", None),
        author |-> IF author # None THEN AuthorInfo(author) ELSE None,
        media |-> OrNone(media_items),
        referenced_tweets |-> OrNone(referenced_tweets),
        entities |-> Entities(tweet)]

\* tweet.id, tweet.text and tweet.created_at are read without a guard: a raw
\* post lacking one of them raises AttributeError out of _process_tweets
Mandatory == {"id", "text", "created_at"}
WellFormedTweet(tweet) == Mandatory \subseteq DOMAIN tweet
WellFormed(response) ==
    Truthy(response.data) =>
        \A k \in 1..Len(response.data.list) :
            WellFormedTweet(response.data.list[k])

Raises(response) == ~WellFormed(response)

\* the records put at the front of processed_tweets, not appended (a slip)
ProcessTweets_prepend(response) ==
    IF ~Truthy(response.data) THEN <<>>
    ELSE [k \in 1..Len(response.data.list) |->
            TweetObj(response.data.list[Len(response.data.list) + 1 - k],
                     response.includes)]

\* the returned list; meaningful only when ~Raises(response)
ProcessTweets(response) ==
    IF ~Truthy(response.data) THEN <<>>
    ELSE [k \in 1..Len(response.data.list) |->
            TweetObj(response.data.list[k], response.includes)]

\* ------------------------------------------- raw pages given to the normaliser
Merge(a, b) ==
    [f \in DOMAIN a \cup DOMAIN b |-> IF f \in DOMAIN b THEN b[f] ELSE a[f]]
Without(a, f) == [g \in DOMAIN a \ {f} |-> a[g]]

Stamp(d, t) == [date |-> d, time |-> t]
Metrics(n) == [retweet_count |-> n, like_count |-> n + 1]

IncludedUsers ==
    <<[id |-> 1, name |-> Str("Ann"), username |-> Str("ann"),
       description |-> Str(""),
       public_metrics |-> [followers_count |-> 10, following_count |-> 2,
                           tweet_count |-> 3, listed_count |-> 0]],
      [id |-> 3, name |-> Str("Bob"), username |-> Str("bob"),
       description |-> Str("b"),
       public_metrics |-> [followers_count |-> 7, following_count |-> 8,
                           tweet_count |-> 9, listed_count |-> 1],
       verified |-> TRUE, profile_image_url |-> Str("http://img/3")]>>

IncludedMedia ==
    <<[media_key |-> "m1", type |-> Str("photo")],
      [media_key |-> "m2", type |-> Str("video"), url |-> Str("http://v/2"),
       alt_text |-> Str("clip"), public_metrics |-> [view_count |-> 5]]>>

IncludedTweets ==
    <<[id |-> 7, text |-> Str("older"), created_at |-> Stamp(20240101, 900)],
      [id |-> 8, text |-> Str("other"), created_at |-> Stamp(20240102, 930),
       public_metrics |-> Metrics(4)]>>

AllIncludes ==
    [users |-> IncludedUsers, media |-> IncludedMedia, tweets |-> IncludedTweets]

\* every choice of which side tables the page carries
IncludesChoices ==
    {[name \in present |-> AllIncludes[name]] : present \in SUBSET DOMAIN AllIncludes}

\* a post with nothing but the mandatory fields; its author is in IncludedUsers
BareTweet ==
    [id |-> 0, text |-> Str("hello"), created_at |-> Stamp(20250101, 1200),
     author_id |-> 1]

FullEntities ==
    [hashtags |-> PyList(<<[tag |-> "x", start |-> 0], [tag |-> "y", start |-> 3]>>),
     mentions |-> PyList(<<[username |-> "ann", id |-> 1, start |-> 6]>>),
     urls |-> PyList(<<[url |-> "t.co/a", expanded_url |-> "a.org", start |-> 9]>>)]

\* the ways one post departs from BareTweet
TweetExtras ==
    { [author_id |-> 2], [author_id |-> 3],
      [lang |-> Str("en"), source |-> Str("web"), public_metrics |-> Metrics(1)],
      [attachments |-> [poll_ids |-> <<"p1">>]],
      [attachments |-> [media_keys |-> <<"m9">>]],
      [attachments |-> [media_keys |-> <<"m2", "m9", "m1">>]],
      [referenced_tweets |-> None],
      [referenced_tweets |-> PyList(<<>>)],
      [referenced_tweets |-> PyList(<<[type |-> "quoted", id |-> 8],
                                      [type |-> "replied_to", id |-> 9],
                                      [type |-> "retweeted", id |-> 7]>>)],
      [entities |-> [annotations |-> PyList(<<>>)]],
      [entities |-> [hashtags |-> None, mentions |-> PyList(<<>>)]],
      [entities |-> FullEntities],
      [author_id |-> 3, lang |-> Str("da"),
       attachments |-> [media_keys |-> <<"m1">>],
       referenced_tweets |-> PyList(<<[type |-> "quoted", id |-> 7]>>),
       entities |-> FullEntities] }

TweetShapes ==
    {BareTweet, Without(BareTweet, "created_at"), Without(BareTweet, "text")}
        \cup {Merge(BareTweet, extra) : extra \in TweetExtras}

\* the posts of a page carry the ids 1, 2, ... in page order
RawData(shapes) == [k \in 1..Len(shapes) |-> Merge(shapes[k], [id |-> k])]

ShapeSeqs == UNION {[1..n -> TweetShapes] : n \in 0..MaxPageLen}

RawResponses ==
    {[data |-> d, includes |-> inc] :
        d \in {None} \cup {PyList(RawData(s)) : s \in ShapeSeqs},
        inc \in IncludesChoices}

EmptyResponse == [data |-> None, includes |-> [name \in {} |-> <<>>]]

\* --------------------------------------------------------------- constants
DefaultMaxTweets == 100     \* get_user_tweets(self, user_id, max_tweets=100)
MaxResults == 100           \* max_results=100, the API maximum per request

\* ------------------------------------------------------------------ bounds
NumHandles == 3     \* configured usernames (main lists six)
MaxTimeline == 8    \* posts the timeline of the first account holds
MinTimeline == 1    \* posts the timeline of every other account holds
MaxPageSize == 5    \* posts the API puts in one page (at most MaxResults)
MaxCap == 4         \* caps 0..MaxCap are tried next to DefaultMaxTweets
MaxStreak == 2      \* consecutive rate-limit signals that are told apart

VARIABLES
    \* ---- the normaliser on its own
    tweets_response,    \* argument of _process_tweets
    processed_tweets,   \* its return value
    norm_pc,            \* "idle", "call", "returned", "raised"
    \* ---- the run
    pc,                 \* position of main / follow_users / get_user_tweets
    credentials_file,   \* twitter_credentials.json on disk
    credentials,        \* self.credentials
    client,             \* self.client has been constructed
    network_used,       \* some API call has been attempted
    tweets_per_user,    \* the cap handed to follow_users
    i,                  \* index in usernames of the handle being processed
    user_id,            \* result of get_user_id for that handle
    all_tweets,         \* all_tweets of get_user_tweets, then tweets of follow_users
    pagination_token,   \* pagination_token of get_user_tweets
    all_data,           \* the Collection Result
    files,              \* per-account files in twitter_data, by handle
    combined_file,      \* all_tweets_<timestamp>.json, None until written
    warnings,           \* handles follow_users logged a skip warning for
    \* ---- what the API did (history)
    unresolved,         \* handles for which get_user_id returned None
    account,            \* handle whose timeline was requested last, 0 if none
    fetched,            \* ids of the posts in the pages processed for account
    collected,          \* by handle, how many posts get_user_tweets returned
    responses,          \* answers other than rate limits, in order, that the
                        \* page requests of the current call received
    rl_streak,          \* consecutive rate-limit signals just received
    last_response,      \* what the latest page request was answered with
    req_token,          \* token the latest page request carried
    expected_token,     \* value of latest_next when that request was made
    latest_next,        \* next_token of the latest processed page, else None
    aborted             \* the fetch loop of account ended in the generic handler

normVars == <<tweets_response, processed_tweets, norm_pc>>
runVars == <<pc, credentials_file, credentials, client, network_used,
             tweets_per_user, i, user_id, all_tweets, pagination_token,
             all_data, files, combined_file, warnings>>
histVars == <<unresolved, account, collected, fetched, responses, rl_streak, last_response,
              req_token, expected_token, latest_next, aborted>>
vars == <<normVars, runVars, histVars>>

EmptyMap == [h \in {} |-> <<>>]
NoResponse == [kind |-> "none"]

\* the run before main starts, for the specification of the normaliser alone
RunIdle ==
    /\ pc = "idle"
    /\ credentials_file = None /\ credentials = None
    /\ client = FALSE /\ network_used = FALSE
    /\ tweets_per_user = 0 /\ i = 0 /\ user_id = None
    /\ all_tweets = <<>> /\ pagination_token = None
    /\ all_data = EmptyMap /\ files = EmptyMap /\ combined_file = None
    /\ warnings = <<>>
    /\ unresolved = {} /\ account = 0 /\ collected = EmptyMap
    /\ fetched = <<>> /\ responses = <<>>
    /\ rl_streak = 0 /\ last_response = NoResponse
    /\ req_token = None /\ expected_token = None /\ latest_next = None
    /\ aborted = FALSE

\* -------------------------------------------- _process_tweets as an operation
NormInit ==
    /\ tweets_response \in RawResponses
    /\ processed_tweets = <<>>
    /\ norm_pc = "call"
    /\ RunIdle

ProcessReturn ==
    /\ norm_pc = "call"
    /\ ~Raises(tweets_response)
    /\ processed_tweets' = ProcessTweets(tweets_response)
    /\ norm_pc' = "returned"
    /\ UNCHANGED <<tweets_response, runVars, histVars>>

ProcessRaise ==
    /\ norm_pc = "call"
    /\ Raises(tweets_response)
    /\ norm_pc' = "raised"
    /\ UNCHANGED <<tweets_response, processed_tweets, runVars, histVars>>

NormNext == ProcessReturn \/ ProcessRaise

NormSpec == NormInit /\ [][NormNext]_vars

\* ------------------------------------------------------------ credentials
Fields == {"consumer_key", "consumer_secret", "access_token",
           "access_token_secret", "bearer_token"}

\* _create_sample_credentials: the placeholder bundle
EdgeFields == {"consumer_key", "bearer_token"}

Sample ==
    [consumer_key |-> "YOUR_CONSUMER_KEY",
     consumer_secret |-> "YOUR_CONSUMER_SECRET",
     access_token |-> "YOUR_ACCESS_TOKEN",
     access_token_secret |-> "YOUR_ACCESS_TOKEN_SECRET",
     bearer_token |-> "YOUR_BEARER_TOKEN"]

SampleFile == [exists |-> TRUE, json |-> TRUE, content |-> Sample]

Filled == [f \in Fields |-> "secret"]

\* bundles an operator may have left in the file: all filled in, none filled
\* in, exactly one field left at its placeholder, or the first or the last
\* key missing
Bundles ==
    {Filled, Sample}
        \cup {[Filled EXCEPT ![f] = Sample[f]] : f \in Fields}
        \cup {Without(Filled, f) : f \in EdgeFields}

CredentialFiles ==
    {[exists |-> FALSE, json |-> FALSE, content |-> Sample],
     [exists |-> TRUE, json |-> FALSE, content |-> Sample]}
        \cup {[exists |-> TRUE, json |-> TRUE, content |-> b] : b \in Bundles}

\* _load_credentials: the bundle it returns, or None where it calls exit(1)
LoadCredentials(file) ==
    IF ~file.json THEN None                                 \* JSONDecodeError
    ELSE IF "consumer_key" \notin DOMAIN file.content THEN None   \* KeyError
    ELSE IF file.content.consumer_key = "YOUR_CONSUMER_KEY" THEN None
    ELSE file.content

\* _authenticate reads all five keys; a missing one raises and exits
AuthenticateRaises(creds) == ~(Fields \subseteq DOMAIN creds)

HasPlaceholder(bundle) ==
    \E f \in Fields \cap DOMAIN bundle : bundle[f] = Sample[f]

\* ---------------------------------------------------------------- the API
Caps == (0..MaxCap) \cup {DefaultMaxTweets}
Handles == 1..NumHandles
AccountId(h) == [id |-> 1000 + h]

Token(cursor) == [cursor |-> cursor]
Position(token) == IF token = None THEN 0 ELSE token.cursor

Min(a, b) == IF a <= b THEN a ELSE b
PageLimit == Min(MaxPageSize, MaxResults)

\* the k-th post of a timeline
RawPost(k) == Merge(BareTweet, [id |-> k])

\* the number of posts account h has published
TimelineLen(h) == IF h = 1 THEN MaxTimeline ELSE MinTimeline

\* a page of n posts starting after position p of the timeline
Page(p, n, has_next, malformed) ==
    [data |-> IF n = 0 THEN None
              ELSE PyList([k \in 1..n |->
                      IF malformed /\ k = n
                      THEN Without(RawPost(p + k), "created_at")
                      ELSE RawPost(p + k)]),
     includes |-> [users |-> IncludedUsers],
     meta |-> IF has_next
              THEN [result_count |-> n, next_token |-> Token(p + n)]
              ELSE [result_count |-> n]]

\* the pages the API may answer a request for account h carrying token with
Pages(h, token) ==
    {Page(Position(token), n, has_next, malformed) :
        n \in {m \in 0..PageLimit : Position(token) + m <= TimelineLen(h)},
        has_next \in BOOLEAN, malformed \in BOOLEAN}

Ids(tweets) == [k \in 1..Len(tweets) |-> tweets[k].id]
PageSize(page) == IF Truthy(page.data) THEN Len(page.data.list) ELSE 0

\* --------------------------------------------------------- get_user_tweets
\* all_tweets[-max_tweets:], the last posts instead of the first (a slip)
Truncate_tail(tweets, max_tweets) ==
    SubSeq(tweets, Len(tweets) - Min(max_tweets, Len(tweets)) + 1, Len(tweets))

\* all_tweets[:max_tweets]
Truncate(tweets, max_tweets) == SubSeq(tweets, 1, Min(max_tweets, Len(tweets)))

\* len(all_tweets) > max_tweets, one post too late (a slip)
CapReached_strict(tweets, max_tweets) == Len(tweets) > max_tweets

\* len(all_tweets) >= max_tweets
CapReached(tweets, max_tweets) == Len(tweets) >= max_tweets

\* the page's own token dropped, so the first page is asked for again (a slip)
NextToken_none(meta) == None

\* tweets.meta['next_token']
NextToken(meta) == meta.next_token

\* One pass through the try block when the API call returns tweets: the new
\* all_tweets and pagination_token, whether the loop goes round again, and
\* whether the pass ended in the generic exception handler.
AfterPage(acc, token, tweets, max_tweets) ==
    IF ~Truthy(tweets.data)
    THEN [all_tweets |-> acc, pagination_token |-> token,
          loop |-> FALSE, raised |-> FALSE]
    ELSE IF Raises(tweets)
    THEN [all_tweets |-> acc, pagination_token |-> token,
          loop |-> FALSE, raised |-> TRUE]
    ELSE LET extended == acc \o ProcessTweets(tweets)
         IN IF CapReached(extended, max_tweets)
            THEN [all_tweets |-> Truncate(extended, max_tweets),
                  pagination_token |-> token,
                  loop |-> FALSE, raised |-> FALSE]
            ELSE IF "next_token" \in DOMAIN tweets.meta
            THEN [all_tweets |-> extended,
                  pagination_token |-> NextToken(tweets.meta),
                  loop |-> TRUE, raised |-> FALSE]
            ELSE [all_tweets |-> extended, pagination_token |-> token,
                  loop |-> FALSE, raised |-> FALSE]

\* the rate limit handled by starting over from the first page (a slip)
AfterRateLimit_restart(acc, token) ==
    [all_tweets |-> acc, pagination_token |-> None,
     loop |-> TRUE, raised |-> FALSE]

\* except tweepy.TooManyRequests: warn, sleep 15 minutes, go round again
AfterRateLimit(acc, token) ==
    [all_tweets |-> acc, pagination_token |-> token,
     loop |-> TRUE, raised |-> FALSE]

\* the error handled by returning nothing (a slip)
AfterError_discard(acc, token) ==
    [all_tweets |-> <<>>, pagination_token |-> token,
     loop |-> FALSE, raised |-> TRUE]

\* except Exception: log and break
AfterError(acc, token) ==
    [all_tweets |-> acc, pagination_token |-> token,
     loop |-> FALSE, raised |-> TRUE]

Put(map, key, value) ==
    [h \in DOMAIN map \cup {key} |-> IF h = key THEN value ELSE map[h]]

\* the request is made and its outcome applied to the loop's variables
Request(outcome, response) ==
    /\ all_tweets' = outcome.all_tweets
    /\ pagination_token' = outcome.pagination_token
    /\ pc' = IF outcome.loop THEN "fetch" ELSE "returned"
    /\ aborted' = outcome.raised
    /\ network_used' = TRUE
    /\ req_token' = pagination_token
    /\ expected_token' = latest_next
    /\ last_response' = response
    /\ collected' = IF outcome.loop THEN collected
                    ELSE Put(collected, i, Len(outcome.all_tweets))
    /\ UNCHANGED <<credentials_file, credentials, client, tweets_per_user, i,
                   user_id, all_data, files, combined_file, warnings,
                   unresolved, account, normVars>>

FetchPage ==
    /\ pc = "fetch"
    /\ \E tweets \in Pages(i, pagination_token) :
        LET outcome == AfterPage(all_tweets, pagination_token, tweets,
                                 tweets_per_user)
            processed == Truthy(tweets.data) /\ ~outcome.raised
            answer == [kind |-> "page", size |-> PageSize(tweets),
                       has_next |-> "next_token" \in DOMAIN tweets.meta,
                       processed |-> ~outcome.raised,
                       token |-> pagination_token]
        IN /\ Request(outcome, answer)
           /\ responses' = Append(responses, answer)
           /\ fetched' = IF processed
                         THEN fetched \o Ids(tweets.data.list) ELSE fetched
           /\ latest_next' = IF ~processed THEN latest_next
                             ELSE IF "next_token" \in DOMAIN tweets.meta
                             THEN tweets.meta.next_token ELSE None
           /\ rl_streak' = 0

RateLimit ==
    /\ pc = "fetch"
    /\ Request(AfterRateLimit(all_tweets, pagination_token),
               [kind |-> "ratelimit"])
    /\ rl_streak' = Min(rl_streak + 1, MaxStreak)
    /\ UNCHANGED <<fetched, latest_next, responses>>

FetchError ==
    /\ pc = "fetch"
    /\ Request(AfterError(all_tweets, pagination_token), [kind |-> "error"])
    /\ responses' = Append(responses,
                           [kind |-> "error", token |-> pagination_token])
    /\ rl_streak' = 0
    /\ UNCHANGED <<fetched, latest_next>>

\* ------------------------------------------------- __init__ and main's start
Exit ==
    /\ pc' = "exit"
    /\ UNCHANGED <<credentials, client, network_used, tweets_per_user, i,
                   user_id, all_tweets, pagination_token, all_data, files,
                   combined_file, warnings, histVars, normVars>>

\* no credentials file: write the sample and exit(1)
ConstructNoFile ==
    /\ pc = "start"
    /\ ~credentials_file.exists
    /\ credentials_file' = SampleFile
    /\ Exit

\* _load_credentials exits: bad JSON (the sample is written again), a missing
\* consumer_key, or consumer_key still at its placeholder
ConstructLoadFails ==
    /\ pc = "start"
    /\ credentials_file.exists
    /\ LoadCredentials(credentials_file) = None
    /\ credentials_file' =
          IF ~credentials_file.json THEN SampleFile ELSE credentials_file
    /\ Exit

\* _authenticate exits: tweepy.Client could not be built
ConstructAuthFails ==
    /\ pc = "start"
    /\ credentials_file.exists
    /\ LoadCredentials(credentials_file) # None
    /\ AuthenticateRaises(LoadCredentials(credentials_file))
    /\ credentials' = LoadCredentials(credentials_file)
    /\ pc' = "exit"
    /\ UNCHANGED <<credentials_file, client, network_used, tweets_per_user, i,
                   user_id, all_tweets, pagination_token, all_data, files,
                   combined_file, warnings, histVars, normVars>>

\* the scraper is built and main calls follow_users
Construct ==
    /\ pc = "start"
    /\ credentials_file.exists
    /\ LoadCredentials(credentials_file) # None
    /\ ~AuthenticateRaises(LoadCredentials(credentials_file))
    /\ credentials' = LoadCredentials(credentials_file)
    /\ client' = TRUE
    /\ all_data' = EmptyMap
    /\ i' = 1
    /\ pc' = "lookup"
    /\ UNCHANGED <<credentials_file, network_used, tweets_per_user, user_id,
                   all_tweets, pagination_token, files, combined_file,
                   warnings, histVars, normVars>>

\* ------------------------------------------------------------ follow_users
\* get_user_id returned an account id: get_user_tweets starts
LookupFound ==
    /\ pc = "lookup"
    /\ i <= NumHandles
    /\ user_id' = AccountId(i)
    /\ network_used' = TRUE
    /\ all_tweets' = <<>>
    /\ pagination_token' = None
    /\ pc' = "fetch"
    /\ account' = i
    /\ fetched' = <<>>
    /\ responses' = <<>>
    /\ rl_streak' = 0
    /\ last_response' = NoResponse
    /\ req_token' = None
    /\ expected_token' = None
    /\ latest_next' = None
    /\ aborted' = FALSE
    /\ UNCHANGED <<credentials_file, credentials, client, tweets_per_user, i,
                   all_data, files, combined_file, warnings, unresolved,
                   collected, normVars>>

\* get_user_id returned None (user not found, or the lookup raised): warn and
\* continue with the next handle
LookupNone ==
    /\ pc = "lookup"
    /\ i <= NumHandles
    /\ user_id' = None
    /\ network_used' = TRUE
    /\ warnings' = Append(warnings, i)
    /\ unresolved' = unresolved \cup {i}
    /\ i' = i + 1
    /\ UNCHANGED <<pc, credentials_file, credentials, client, tweets_per_user,
                   all_tweets, pagination_token, all_data, files,
                   combined_file, account, collected, fetched, responses,
                   rl_streak,
                   last_response, req_token, expected_token, latest_next,
                   aborted, normVars>>

\* the "if tweets:" test left out (a slip)
Stored_always(map, username, tweets) == Put(map, username, tweets)

\* all_data and files after the "if tweets:" block
Stored(map, username, tweets) ==
    IF tweets # <<>> THEN Put(map, username, tweets) ELSE map

\* the per-account file left for later (a slip)
Store_deferred ==
    /\ pc = "returned"
    /\ all_data' = Stored(all_data, i, all_tweets)
    /\ i' = i + 1
    /\ pc' = "lookup"
    /\ pagination_token' = None
    /\ responses' = <<>>
    /\ rl_streak' = 0
    /\ last_response' = NoResponse
    /\ req_token' = None
    /\ expected_token' = None
    /\ latest_next' = None
    /\ UNCHANGED <<credentials_file, credentials, client, network_used,
                   tweets_per_user, user_id, all_tweets, files, combined_file,
                   warnings, unresolved, account, collected, fetched, aborted,
                   normVars>>

\* get_user_tweets returns (its locals other than the returned list are gone)
\* and follow_users keeps and saves what it returned
Store ==
    /\ pc = "returned"
    /\ all_data' = Stored(all_data, i, all_tweets)
    /\ files' = Stored(files, i, all_tweets)
    /\ i' = i + 1
    /\ pc' = "lookup"
    /\ pagination_token' = None
    /\ responses' = <<>>
    /\ rl_streak' = 0
    /\ last_response' = NoResponse
    /\ req_token' = None
    /\ expected_token' = None
    /\ latest_next' = None
    /\ UNCHANGED <<credentials_file, credentials, client, network_used,
                   tweets_per_user, user_id, all_tweets, combined_file,
                   warnings, unresolved, account, collected, fetched, aborted,
                   normVars>>

\* follow_users has returned: main writes the combined file
WriteCombined ==
    /\ pc = "lookup"
    /\ i > NumHandles
    /\ combined_file' = [json |-> all_data]
    /\ pc' = "done"
    /\ UNCHANGED <<credentials_file, credentials, client, network_used,
                   tweets_per_user, i, user_id, all_tweets, pagination_token,
                   all_data, files, warnings, histVars, normVars>>

\* ------------------------------------------------------- the specification
Init ==
    /\ pc = "start"
    /\ credentials_file \in CredentialFiles
    /\ credentials = None
    /\ client = FALSE
    /\ network_used = FALSE
    /\ tweets_per_user \in Caps
    /\ i = 0
    /\ user_id = None
    /\ all_tweets = <<>>
    /\ pagination_token = None
    /\ all_data = EmptyMap
    /\ files = EmptyMap
    /\ combined_file = None
    /\ warnings = <<>>
    /\ unresolved = {}
    /\ account = 0
    /\ collected = EmptyMap
    /\ fetched = <<>>
    /\ responses = <<>>
    /\ rl_streak = 0
    /\ last_response = NoResponse
    /\ req_token = None
    /\ expected_token = None
    /\ latest_next = None
    /\ aborted = FALSE
    /\ tweets_response = EmptyResponse
    /\ processed_tweets = <<>>
    /\ norm_pc = "idle"

Next ==
    \/ ConstructNoFile
    \/ ConstructLoadFails
    \/ ConstructAuthFails
    \/ Construct
    \/ LookupFound
    \/ LookupNone
    \/ FetchPage
    \/ RateLimit
    \/ FetchError
    \/ Store
    \/ WriteCombined

Spec == Init /\ [][Next]_vars

\* page requests of the current call that a rate limit did not answer
Requests == Len(responses)

\* The program is sequential and always takes its next step; the API
\* eventually answers a page request with something other than a rate limit.
Step ==
    \/ ConstructNoFile \/ ConstructLoadFails \/ ConstructAuthFails \/ Construct
    \/ LookupFound \/ LookupNone \/ Store \/ WriteCombined
Answered == FetchPage \/ FetchError

\* The credential bundle plays no part once the client is built: the runs
\* start from a file that is missing, malformed, incomplete, the sample, or
\* filled in.
LiveInit ==
    /\ Init
    /\ HasPlaceholder(credentials_file.content) =>
          credentials_file.content = Sample

LiveSpec == LiveInit /\ [][Next]_vars /\ WF_vars(Step) /\ WF_vars(Answered)

\* ================================================================== claims
Cap == tweets_per_user
OneTo(n) == [k \in 1..n |-> k]
InCall == pc \in {"fetch", "returned"}
Data == tweets_response.data
RawList == IF Truthy(Data) THEN Data.list ELSE <<>>

\* C1: get_user_tweets never holds or returns more than the cap; what it holds
\* is always the leading part of the posts fetched so far, in fetch order; once
\* the pages fetched hold posts, and at least the cap, the loop has stopped
\* with exactly the first cap posts; and what follow_users keeps per handle obeys the cap.
\* With cap 4 and a first page of 5 posts it returns posts 1-4 after one
\* request.
C1_CapRespected ==
    /\ Len(all_tweets) <= Cap
    /\ Ids(all_tweets) = SubSeq(fetched, 1, Len(all_tweets))
    /\ (InCall /\ fetched # <<>> /\ Len(fetched) >= Cap) =>
          /\ pc = "returned"
          /\ Ids(all_tweets) = SubSeq(fetched, 1, Cap)
    /\ \A h \in DOMAIN all_data : Len(all_data[h]) <= Cap
    /\ (InCall /\ Cap = 4 /\ Requests >= 1 /\ responses[1].kind = "page"
          /\ responses[1].size = 5 /\ responses[1].processed) =>
          /\ pc = "returned"
          /\ Requests = 1
          /\ Ids(all_tweets) = <<1, 2, 3, 4>>

C1_Witness ==
    /\ pc = "returned"
    /\ Cap = 4
    /\ Requests = 1
    /\ Len(fetched) = 5
    /\ Ids(all_tweets) = <<1, 2, 3, 4>>

\* C2: the first page request carries no token and every later one carries the
\* next_token of the latest processed page; the loop goes round again only
\* after a rate limit or after a page that has posts, has a next_token and
\* leaves the count below the cap.  Pages [5 posts with token, 3 posts without]
\* under cap 100 give all 8 posts after exactly two requests.
C2_Pagination ==
    /\ InCall /\ last_response.kind # "none" => req_token = expected_token
    /\ InCall =>
          \A k \in 1..Requests :
              responses[k].token =
                  IF k = 1 THEN None
                  ELSE Token(responses[k - 1].size + Position(responses[k - 1].token))
    /\ InCall =>
          \A k \in 1..Requests :
              (k < Requests \/ pc = "fetch") =>
                  /\ responses[k].kind = "page"
                  /\ responses[k].size > 0
                  /\ responses[k].has_next
                  /\ responses[k].processed
                  /\ Position(responses[k].token) + responses[k].size < Cap
    /\ (InCall /\ Cap = 100 /\ Requests >= 2
          /\ responses[1].kind = "page" /\ responses[1].size = 5
          /\ responses[1].has_next /\ responses[1].processed
          /\ responses[2].kind = "page" /\ responses[2].size = 3
          /\ ~responses[2].has_next /\ responses[2].processed) =>
          /\ pc = "returned"
          /\ Requests = 2
          /\ Ids(all_tweets) = OneTo(8)

C2_Witness ==
    /\ pc = "returned"
    /\ Cap = 100
    /\ Requests = 2
    /\ responses[1].kind = "page" /\ responses[1].size = 5
    /\ responses[1].has_next
    /\ responses[2].kind = "page" /\ responses[2].size = 3
    /\ ~responses[2].has_next
    /\ Ids(all_tweets) = OneTo(8)

NoDuplicates(tweets) ==
    \A j, k \in 1..Len(tweets) : tweets[j].id = tweets[k].id => j = k

\* C3: a page request answered by a rate limit leaves the account in its fetch
\* loop with all_tweets and pagination_token as they were; the request after a
\* rate limit carries the token the rate-limited one carried; and no post is
\* ever held twice.
C3_RateLimitRetry ==
    [][ /\ (pc = "fetch" /\ last_response'.kind = "ratelimit") =>
            /\ pc' = "fetch"
            /\ i' = i
            /\ ~aborted'
            /\ all_tweets' = all_tweets
            /\ pagination_token' = pagination_token
            /\ fetched' = fetched
            /\ req_token' = pagination_token
        /\ (pc = "fetch" /\ last_response.kind = "ratelimit") =>
            req_token' = req_token
        /\ NoDuplicates(all_tweets') ]_vars

C3_Witness ==
    /\ pc = "fetch"
    /\ rl_streak >= 2
    /\ last_response.kind = "ratelimit"
    /\ Len(all_tweets) >= 2
    /\ pagination_token # None
    /\ req_token = pagination_token

\* C4: a credential file with any field at its placeholder never gets as far
\* as an API client or a network call.
C4_PlaceholderRefused ==
    (credentials_file.exists /\ credentials_file.json
        /\ HasPlaceholder(credentials_file.content)) =>
        /\ client = FALSE
        /\ network_used = FALSE
        /\ pc \in {"start", "exit"}

Count(seq, x) == Cardinality({k \in 1..Len(seq) : seq[k] = x})

\* C5 as stated: with exactly one unresolvable handle, the Collection Result
\* holds exactly the other handles once the run is complete.
C5_Original ==
    (pc = "done" /\ Cardinality(unresolved) = 1) =>
        DOMAIN all_data = Handles \ unresolved

\* C5: an unresolvable handle does not stop the run, is never in the
\* Collection Result and gets exactly one warning; when exactly one handle is
\* unresolvable and the run is complete, get_user_tweets was called for every
\* other handle and the Collection Result holds exactly those of them that
\* returned at least one post.
C5_SkipUnresolved ==
    /\ unresolved # {} => pc # "exit"
    /\ \A h \in unresolved :
          /\ h \notin DOMAIN all_data
          /\ h \notin DOMAIN collected
          /\ Count(warnings, h) = 1
    /\ \A h \in Handles \ unresolved : Count(warnings, h) = 0
    /\ (pc = "done" /\ Cardinality(unresolved) = 1) =>
          /\ DOMAIN collected = Handles \ unresolved
          /\ DOMAIN all_data = {h \in DOMAIN collected : collected[h] > 0}
          /\ combined_file = [json |-> all_data]

C5_Witness ==
    /\ pc = "done"
    /\ unresolved = {2}
    /\ DOMAIN all_data = Handles \ {2}
    /\ Len(warnings) = 1

\* C6: when the fetch loop of an account ends in the generic handler, the run
\* is not stopped; the posts of the pages processed before are what
\* get_user_tweets returns and, once follow_users has dealt with the account,
\* what the Collection Result and the account's file hold; and a run that
\* ends has looked up every handle.
C6_AbortKeepsPartial ==
    /\ aborted =>
          /\ pc \in {"returned", "lookup", "done"}
          /\ Ids(all_tweets) = fetched
          /\ account \in DOMAIN collected
          /\ collected[account] = Len(fetched)
          /\ (pc # "returned" /\ fetched # <<>>) =>
                /\ i > account
                /\ account \in DOMAIN all_data
                /\ account \in DOMAIN files
                /\ Ids(all_data[account]) = fetched
                /\ files[account] = all_data[account]
    /\ pc = "done" =>
          /\ i = NumHandles + 1
          /\ DOMAIN collected \cup unresolved = Handles

C6_Witness ==
    /\ aborted
    /\ account = 1
    /\ Len(fetched) >= 2
    /\ pc = "lookup"
    /\ i = 2
    /\ Ids(all_data[1]) = fetched
    /\ files[1] = all_data[1]

C8_OnePerPost ==
    (norm_pc # "call" /\ WellFormed(tweets_response)) =>
        /\ norm_pc = "returned"
        /\ Len(processed_tweets) = Len(RawList)
        /\ \A k \in 1..Len(RawList) : processed_tweets[k].id = RawList[k].id

C8_Witness ==
    /\ norm_pc = "returned"
    /\ Len(RawList) = 2
    /\ DOMAIN tweets_response.includes = {"media"}
    /\ "referenced_tweets" \in DOMAIN RawList[1]
    /\ RawList[2].author_id = 2
    /\ Ids(processed_tweets) = <<1, 2>>

RecordFields ==
    {"id", "text", "created_at", "lang", "source", "public_metrics", "author",
     "media", "referenced_tweets", "entities"}
EntityKeys == {"hashtags", "mentions", "urls"}

KnownAuthor(tweet) ==
    \E k \in 1..Len(SideTable(tweets_response.includes, "users")) :
        SideTable(tweets_response.includes, "users")[k].id = tweet.author_id

ResolvedKeys(tweet) ==
    IF "attachments" \in DOMAIN tweet /\ "media_keys" \in DOMAIN tweet.attachments
    THEN {k \in 1..Len(tweet.attachments.media_keys) :
            \E j \in 1..Len(SideTable(tweets_response.includes, "media")) :
                SideTable(tweets_response.includes, "media")[j].media_key
                    = tweet.attachments.media_keys[k]}
    ELSE {}

HasEntity(tweet, name) ==
    /\ "entities" \in DOMAIN tweet
    /\ name \in DOMAIN tweet.entities
    /\ tweet.entities[name] # None
    /\ tweet.entities[name] # PyList(<<>>)

\* C9: every record _process_tweets returns has exactly the ten fields; lang,
\* source and public_metrics missing from the raw post are None; author is
\* None when the author id is not among the included users; media is None,
\* not an empty list, when no media key resolves; entities has exactly the
\* keys hashtags, mentions and urls, each an empty list when the raw post has
\* none.
C9_FixedShape ==
    norm_pc = "returned" =>
        \A k \in 1..Len(processed_tweets) :
            LET rec == processed_tweets[k]
                raw == RawList[k]
            IN /\ DOMAIN rec = RecordFields
               /\ \A f \in {"lang", "source", "public_metrics"} :
                     f \notin DOMAIN raw => rec[f] = None
               /\ ~KnownAuthor(raw) => rec.author = None
               /\ ResolvedKeys(raw) = {} => rec.media = None
               /\ rec.media # PyList(<<>>)
               /\ rec.referenced_tweets # PyList(<<>>)
               /\ DOMAIN rec.entities = EntityKeys
               /\ \A name \in EntityKeys :
                     ~HasEntity(raw, name) => rec.entities[name] = <<>>

C9_Witness ==
    /\ norm_pc = "returned"
    /\ Len(processed_tweets) = 2
    /\ DOMAIN RawList[1] = {"id", "text", "created_at", "author_id"}
    /\ DOMAIN tweets_response.includes = {}
    /\ processed_tweets[1].author = None
    /\ "attachments" \in DOMAIN RawList[2]
    /\ processed_tweets[2].media = None
    /\ processed_tweets[2].entities = [hashtags |-> <<>>, mentions |-> <<>>, urls |-> <<>>]

Max2(a, b) == IF a >= b THEN a ELSE b

\* C10: in one call of get_user_tweets at most max(1, cap) page requests are
\* answered by something other than a rate limit, every answer but the last
\* being a page that added a post; a rate limit keeps the loop on the same
\* account; and when page requests are eventually answered by something other
\* than a rate limit the run ends, with every handle skipped or fetched when
\* it ends with the combined file.
C10_Terminates ==
    /\ [](Requests <= Max2(1, Cap))
    /\ [](pc = "fetch" => Len(all_tweets) >= Requests)
    /\ [](pc = "done" => DOMAIN collected \cup unresolved = Handles)
    /\ [][(pc = "fetch" /\ last_response'.kind = "ratelimit") =>
              (pc' = "fetch" /\ account' = account /\ responses' = responses)]_vars
    /\ <>(pc \in {"done", "exit"})
    /\ (pc = "lookup") ~> (pc = "done")

C10_Witness ==
    /\ pc = "returned"
    /\ Cap = 3
    /\ Requests = 3
    /\ Len(all_tweets) = 3
    /\ 1 \in DOMAIN collected

====
